---- MODULE Spec2Model ----
(***************************************************************************)
(* Model of DeepTrack/features.py: the Feature lifecycle (update, sample,  *)
(* resolve) and the combinators FeatureBranch, FeatureProbability and      *)
(* FeatureDuplicate.  PropertyDict / Property / Image live in              *)
(* modules that are not part of the source tree at hand; their behaviour   *)
(* is taken from the specification (ordered resampling, propagation of     *)
(* update() to feature-valued properties, append of a metadata record).    *)
(***************************************************************************)
EXTENDS Integers, Sequences, FiniteSets, TLC

VARIABLES scen, has_updated, cur_value, random_number, num_duplicates,
          features, out, last, ran, fault, append_in_place

vars == <<scen, has_updated, cur_value, random_number, num_duplicates,
          features, out, last, ran, fault, append_in_place>>

(* ---------------------------------------------------------------------- *)
(* Bounds                                                                  *)
(* ---------------------------------------------------------------------- *)
MaxVal == 2
MaxCount == 2
PScale == 2

Vals == 1..MaxVal               \* values a sampled leaf property can take
Counts == 0..MaxCount           \* values a sampled num_duplicates can take
Draws == 0..(PScale - 1)        \* np.random.rand: [0,1) in steps of 1/PScale
Images == {0, 5}                \* input artifacts (scalar value, empty trail)

(* ---------------------------------------------------------------------- *)
(* The pipelines, built once by the author with the combinators            *)
(* ---------------------------------------------------------------------- *)
Leaves == {"A", "B", "T", "Ld"}
Branches == {"AB", "BT", "L", "R", "Q", "S", "AL"}
Probabilities == {"P0", "P1", "Ph"}
Duplicates == {"D", "D0"}
Nodes == Leaves \cup Branches \cup Probabilities \cup Duplicates

Kind(n) ==
    IF n \in Leaves THEN "Leaf"
    ELSE IF n \in Branches THEN "Branch"
    ELSE IF n \in Probabilities THEN "Probability"
    ELSE "Duplicate"

\* A + B, B + T, [A + B] + T, A + [B + T], T + Ph, T + D, A + Ld
Feature1(n) ==
    CASE n = "AB" -> "A" [] n = "BT" -> "B" [] n = "L" -> "AB"
      [] n = "R" -> "A" [] n = "Q" -> "T" [] n = "S" -> "T"
      [] n = "AL" -> "A"

Feature2(n) ==
    CASE n = "AB" -> "B" [] n = "BT" -> "T" [] n = "L" -> "T"
      [] n = "R" -> "BT" [] n = "Q" -> "Ph" [] n = "S" -> "D"
      [] n = "AL" -> "Ld"

\* A with probability 0, A with probability 1, T with probability 1/PScale
Wrapped(n) == CASE n = "P0" -> "A" [] n = "P1" -> "A" [] n = "Ph" -> "T"

Probability(n) == CASE n = "P0" -> 0 [] n = "P1" -> PScale [] n = "Ph" -> 1

\* T duplicated a sampled number of times, A duplicated 0 times
Template(n) == CASE n = "D" -> "T" [] n = "D0" -> "A"

CountIsSampled(n) == n = "D"

\* A adds the constant 1, B adds the constant 2, T adds a sampled value,
\* Ld is a Load: it adds the next item of its iterator
LeafIsSampled(n) == n \in {"T", "Ld"}

LeafConstant(n) == CASE n = "A" -> 1 [] n = "B" -> 2 [] OTHER -> 1

IsLoad(n) == n = "Ld"

\* Load.setParent: always raises
LoadSetParent(F) == "raise"

\* FeatureBranch.__init__: both features become properties; nothing is
\* called on them
BranchInit(F1, F2) == "ok"

Members(sc) ==
    CASE sc = "seq" -> {"A", "B", "T", "AB", "BT", "L", "R"}
      [] sc = "fixed" -> {"A", "P0", "P1", "D0"}
      [] sc = "prob" -> {"T", "Ph", "Q"}
      [] sc = "dup" -> {"T", "D", "S"}
      [] sc = "load" -> {"A", "Ld", "AL"}

\* the pipelines an author works with at one time: those whose
\* constructors return
Scenarios ==
    {sc \in {"seq", "fixed", "prob", "dup", "load"} :
        \A n \in Members(sc) \cap Branches :
            BranchInit(Feature1(n), Feature2(n)) = "ok"}

\* the sub-nodes held as property values, in declaration order
Children(n) ==
    CASE Kind(n) = "Branch" -> <<Feature1(n), Feature2(n)>>
      [] Kind(n) = "Probability" -> <<Wrapped(n)>>
      [] OTHER -> <<>>

Range(s) == {s[i] : i \in DOMAIN s}

RECURSIVE Reach(_)
Reach(n) == {n} \cup UNION {Reach(c) : c \in Range(Children(n))}

(* ---------------------------------------------------------------------- *)
(* State threaded through one call                                         *)
(* ---------------------------------------------------------------------- *)
\* no exception: neither one to come (inj) nor one raised (fault)
NoFault == [node |-> "none", k |-> 0]

Cur == [u |-> has_updated, v |-> cur_value, rn |-> random_number,
        nd |-> num_duplicates, fs |-> features,
        ran |-> [n \in Nodes |-> 0],
        inj |-> NoFault, fault |-> NoFault]

\* an exception is propagating
Raised(st) == st.fault.node # "none"

\* the sampler of the k-th property of n (update), the get of the leaf n
\* (k = 0) or of the k-th replica of n (resolve) is the one that raises
Fails(st, n, k) == st.inj = [node |-> n, k |-> k]

Raise(st, n, k) == [st EXCEPT !.fault = [node |-> n, k |-> k]]

NoImage == [val |-> -1, trail |-> <<>>]

\* a metadata record: the current_value_dict of the resolving node
Rec(kind, vals, subs) == [keys |-> kind, vals |-> vals, subs |-> subs]

RepVals(fs) == [i \in DOMAIN fs |-> fs[i].val]

Snapshot(n, st) ==
    CASE Kind(n) = "Leaf" -> Rec("Leaf", <<st.v[n]>>, <<>>)
      [] Kind(n) = "Branch" -> Rec("Branch", <<>>, Children(n))
      [] Kind(n) = "Probability" ->
             Rec("Probability", <<Probability(n), st.rn[n]>>, Children(n))
      [] Kind(n) = "Duplicate" ->
             Rec("Duplicate", <<st.nd[n]>> \o RepVals(st.fs[n]), <<>>)

\* the image that Image.append yields
ImageAppend(img, rec) == [val |-> img.val, trail |-> Append(img.trail, rec)]

\* the local `image` after the statement image.append(properties): the value
\* append returns is not bound to anything, so the record is on `image` only
\* if append changes the image it is called on
Append_(img, rec) == IF append_in_place THEN ImageAppend(img, rec) ELSE img

(* ---------------------------------------------------------------------- *)
(* update / sample                                                         *)
(* ---------------------------------------------------------------------- *)
\* copy.deepcopy(feature): the copy carries the template's values and flag
DeepCopy(t, st) == [val |-> st.v[t], upd |-> st.u[t], own |-> FALSE]

\* .update() on a fresh copy of the leaf template t
ReplicaUpdate(t, r, draw) ==
    IF ~r.upd
    THEN [val |-> IF LeafIsSampled(t) THEN draw ELSE r.val,
          upd |-> TRUE, own |-> TRUE]
    ELSE [r EXCEPT !.upd = TRUE]

\* variant: the list is sized by the count the bag held before this pass
FeaturesSampler_StaleCount(n, st, o) ==
    [i \in 1..num_duplicates[n] |->
        ReplicaUpdate(Template(n), DeepCopy(Template(n), st), o.rep[i])]

\* the lambda of FeatureDuplicate.__init__
FeaturesSampler(n, st, o) ==
    [i \in 1..st.nd[n] |->
        ReplicaUpdate(Template(n), DeepCopy(Template(n), st), o.rep[i])]

RECURSIVE FeatUpdate(_, _, _), PropsUpdate(_, _, _)

\* variant: update without the has_updated_since_last_resolve test
FeatUpdate_NoGate(n, st, o) ==
    [PropsUpdate(n, st, o) EXCEPT !.u[n] = TRUE]

\* variant: update that never sets has_updated_since_last_resolve
FeatUpdate_NoFlag(n, st, o) ==
    IF ~st.u[n] THEN PropsUpdate(n, st, o) ELSE st

\* variant: the flag is set although properties.update() raised
FeatUpdate_FlagAlways(n, st, o) ==
    IF Raised(st) THEN st
    ELSE LET s1 == IF ~st.u[n] THEN PropsUpdate(n, st, o) ELSE st
         IN  [s1 EXCEPT !.u[n] = TRUE]

\* Feature.update
FeatUpdate(n, st, o) ==
    IF Raised(st) THEN st
    ELSE LET s1 == IF ~st.u[n] THEN PropsUpdate(n, st, o) ELSE st
         IN  IF Raised(s1) THEN s1 ELSE [s1 EXCEPT !.u[n] = TRUE]

\* PropertyDict.update: the properties in insertion order, stopping at the
\* first sampler that raises; ran counts the passes that reach the end
PropsUpdate(n, st, o) ==
    LET s2 ==
        CASE Kind(n) = "Leaf" ->
                 IF ~LeafIsSampled(n) THEN st
                 ELSE IF Fails(st, n, 1) THEN Raise(st, n, 1)
                 ELSE [st EXCEPT !.v[n] = o.v]
          [] Kind(n) = "Branch" ->
                 FeatUpdate(Feature2(n), FeatUpdate(Feature1(n), st, o), o)
          [] Kind(n) = "Probability" ->
                 LET s1 == FeatUpdate(Wrapped(n), st, o)
                 IN  IF Raised(s1) THEN s1
                     ELSE IF Fails(s1, n, 3) THEN Raise(s1, n, 3)
                     ELSE [s1 EXCEPT !.rn[n] = o.rn[n]]
          [] Kind(n) = "Duplicate" ->
                 LET s1 == IF ~CountIsSampled(n) THEN st
                           ELSE IF Fails(st, n, 1) THEN Raise(st, n, 1)
                           ELSE [st EXCEPT !.nd[n] = o.nd]
                 IN  IF Raised(s1) THEN s1
                     ELSE IF Fails(s1, n, 2) THEN Raise(s1, n, 2)
                     ELSE [s1 EXCEPT !.fs[n] = FeaturesSampler(n, s1, o)]
    IN  IF Raised(s2) THEN s2 ELSE [s2 EXCEPT !.ran[n] = @ + 1]

\* Feature.sample
\* variant: sample goes through the gate of update
FeatSample_AsUpdate(n, st, o) == FeatUpdate(n, st, o)

\* Feature.sample
FeatSample(n, st, o) == PropsUpdate(n, st, o)

(* ---------------------------------------------------------------------- *)
(* resolve                                                                 *)
(* ---------------------------------------------------------------------- *)
RECURSIVE FeatResolve(_, _, _), Get(_, _, _), DuplicateFold(_, _, _, _)

\* variant: get draws the next value of a sampled property itself
LeafGet_NextItem(n, img, st) ==
    [img |-> [img EXCEPT !.val = @ + st.v[n]],
     st |-> IF LeafIsSampled(n)
            THEN [st EXCEPT !.v[n] = (@ % MaxVal) + 1] ELSE st]

LeafGet(n, img, st) ==
    IF Fails(st, n, 0)
    THEN [img |-> img, st |-> Raise(st, n, 0)]
    ELSE [img |-> [img EXCEPT !.val = @ + st.v[n]], st |-> st]

\* variant: feature_2 is resolved before feature_1
BranchGet_Swapped(n, img, st) ==
    LET r1 == FeatResolve(Feature2(n), img, st)
    IN  FeatResolve(Feature1(n), r1.img, r1.st)

\* variant: feature_2 receives the input image instead of feature_1's output
BranchGet_DropFirst(n, img, st) ==
    LET r1 == FeatResolve(Feature1(n), img, st)
    IN  FeatResolve(Feature2(n), img, r1.st)

BranchGet(n, img, st) ==
    LET r1 == FeatResolve(Feature1(n), img, st)
    IN  FeatResolve(Feature2(n), r1.img, r1.st)

\* variant: the draw is compared with <= instead of <
ProbabilityGet_Inclusive(n, img, st) ==
    IF st.rn[n] <= Probability(n)
    THEN FeatResolve(Wrapped(n), img, st)
    ELSE [img |-> img, st |-> st]

\* variant: the wrapped feature is resolved whatever the draw is
ProbabilityGet_Always(n, img, st) == FeatResolve(Wrapped(n), img, st)

ProbabilityGet(n, img, st) ==
    IF st.rn[n] < Probability(n)
    THEN FeatResolve(Wrapped(n), img, st)
    ELSE [img |-> img, st |-> st]

\* resolve of the i-th replica: a copy of a leaf
ReplicaResolve(n, i, img, st) ==
    LET r == st.fs[n][i]
    IN  IF Fails(st, n, i)
        THEN [img |-> img, st |-> Raise(st, n, i)]
        ELSE [img |-> Append_([img EXCEPT !.val = @ + r.val],
                              Rec("Leaf", <<r.val>>, <<>>)),
              st |-> [st EXCEPT !.fs[n][i].upd = FALSE]]

DuplicateFold(n, i, img, st) ==
    IF i > Len(st.fs[n]) \/ Raised(st)
    THEN [img |-> img, st |-> st]
    ELSE LET r == ReplicaResolve(n, i, img, st)
         IN  DuplicateFold(n, i + 1, r.img, r.st)

\* variant: the loop starts at the second replica
DuplicateGet_SkipFirst(n, img, st) == DuplicateFold(n, 2, img, st)

\* variant: the template itself is resolved before its copies
DuplicateGet_ResolvesTemplate(n, img, st) ==
    LET r == FeatResolve(Template(n), img, st)
    IN  DuplicateFold(n, 1, r.img, r.st)

DuplicateGet(n, img, st) == DuplicateFold(n, 1, img, st)

Get(n, img, st) ==
    CASE Kind(n) = "Leaf" -> LeafGet(n, img, st)
      [] Kind(n) = "Branch" -> BranchGet(n, img, st)
      [] Kind(n) = "Probability" -> ProbabilityGet(n, img, st)
      [] Kind(n) = "Duplicate" -> DuplicateGet(n, img, st)

\* variant: resolve leaves the flag as it is
FeatResolve_KeepFlag(n, img, st) ==
    IF Raised(st) THEN [img |-> img, st |-> st]
    ELSE LET properties == Snapshot(n, st)
             g == Get(n, img, st)
         IN  IF Raised(g.st) THEN g
             ELSE [img |-> Append_(g.img, properties), st |-> g.st]

\* variant: the flag is cleared before get is called
FeatResolve_FlagFirst(n, img, st) ==
    IF Raised(st) THEN [img |-> img, st |-> st]
    ELSE LET properties == Snapshot(n, st)
             g == Get(n, img, [st EXCEPT !.u[n] = FALSE])
         IN  IF Raised(g.st) THEN g
             ELSE [img |-> Append_(g.img, properties), st |-> g.st]

\* Feature.resolve
FeatResolve(n, img, st) ==
    IF Raised(st) THEN [img |-> img, st |-> st]
    ELSE LET properties == Snapshot(n, st)
             g == Get(n, img, st)
         IN  IF Raised(g.st) THEN g
             ELSE [img |-> Append_(g.img, properties),
                   st |-> [g.st EXCEPT !.u[n] = FALSE]]

(* ---------------------------------------------------------------------- *)
(* The state machine                                                       *)
(* ---------------------------------------------------------------------- *)
InitFeatures ==
    /\ scen \in Scenarios
    /\ has_updated = [n \in Nodes |-> FALSE]
    /\ cur_value \in {f \in [Leaves -> Vals \cup {1, 2}] :
                        \A n \in Leaves :
                            IF LeafIsSampled(n) /\ n \in Members(scen)
                            THEN f[n] \in Vals
                            ELSE f[n] = LeafConstant(n)}
    /\ random_number \in {f \in [Probabilities -> Draws] :
                            \A n \in Probabilities :
                                n \notin Members(scen) => f[n] = 0}
    /\ num_duplicates = [n \in Duplicates |-> 0]
    /\ features = [n \in Duplicates |-> <<>>]
    /\ out = NoImage
    /\ last = [op |-> "init", node |-> "A", arg |-> -1]
    /\ ran = [n \in Nodes |-> 0]
    /\ fault = NoFault

\* Image.append appends to the properties field of the image it is called on
Init ==
    /\ InitFeatures
    /\ append_in_place = TRUE

\* The random draws one call consumes.  Which samplers run depends only on
\* the flags, so a first pass with fixed draws tells which draws to enumerate.
ZeroOracle ==
    [v |-> 1, rn |-> [p \in Probabilities |-> 0], nd |-> MaxCount,
     rep |-> [i \in 1..MaxCount |-> 1]]

Consumed(st) ==
    [leaf |-> \E m \in Leaves : LeafIsSampled(m) /\ st.ran[m] > 0,
     rn |-> {p \in Probabilities : st.ran[p] > 0},
     nd |-> \E d \in Duplicates : CountIsSampled(d) /\ st.ran[d] > 0,
     rep |-> \E d \in Duplicates :
                /\ st.ran[d] > 0
                /\ LeafIsSampled(Template(d))
                /\ \E i \in DOMAIN st.fs[d] : st.fs[d][i].own]

Oracles(c) ==
    {[v |-> v,
      rn |-> [p \in Probabilities |-> IF p \in c.rn THEN g[p] ELSE 0],
      nd |-> k[1],
      rep |-> [i \in 1..MaxCount |-> IF i \in DOMAIN k[2] THEN k[2][i] ELSE 1]] :
        v \in (IF c.leaf THEN Vals ELSE {1}),
        g \in [c.rn -> Draws],
        k \in UNION {{<<nd, rep>> :
                        rep \in (IF c.rep THEN [1..nd -> Vals] ELSE {<<>>})} :
                    nd \in (IF c.nd THEN Counts ELSE {MaxCount})}}

Install(st) ==
    /\ has_updated' = st.u
    /\ cur_value' = st.v
    /\ random_number' = st.rn
    /\ num_duplicates' = st.nd
    /\ features' = st.fs
    /\ ran' = st.ran
    /\ fault' = st.fault

Update(n) ==
    LET c == Consumed(FeatUpdate(n, Cur, ZeroOracle)) IN
    \E o \in Oracles(c) :
        /\ Install(FeatUpdate(n, Cur, o))
        /\ out' = NoImage
        /\ last' = [op |-> "update", node |-> n, arg |-> -1]
        /\ UNCHANGED <<scen, append_in_place>>

Sample(n) ==
    LET c == Consumed(FeatSample(n, Cur, ZeroOracle)) IN
    \E o \in Oracles(c) :
        /\ Install(FeatSample(n, Cur, o))
        /\ out' = NoImage
        /\ last' = [op |-> "sample", node |-> n, arg |-> -1]
        /\ UNCHANGED <<scen, append_in_place>>

Resolve(n, image) ==
    LET r == FeatResolve(n, [val |-> image, trail |-> <<>>], Cur)
    IN  /\ Install(r.st)
        /\ out' = r.img
        /\ last' = [op |-> "resolve", node |-> n, arg |-> image]
        /\ UNCHANGED <<scen, append_in_place>>

Next ==
    \E n \in Members(scen) :
        \/ Update(n)
        \/ Sample(n)
        \/ \E image \in Images : Resolve(n, image)

Spec == Init /\ [][Next]_vars

(* ---------------------------------------------------------------------- *)
(* Rounds: root.update() followed by root.resolve(), on one root           *)
(* ---------------------------------------------------------------------- *)
RoundUpdate(r) ==
    /\ last.op = "init" \/ (last.op = "resolve" /\ last.node = r)
    /\ Update(r)

RoundResolve(r) ==
    /\ last.op = "update" /\ last.node = r
    /\ \E image \in Images : Resolve(r, image)

NextRounds ==
    \E r \in Members(scen) :
        \/ RoundUpdate(r)
        \/ RoundResolve(r)

SpecRounds == Init /\ [][NextRounds]_vars

(* ---------------------------------------------------------------------- *)
(* Any image type: append may also return a new image and leave the one   *)
(* it is called on as it was                                               *)
(* ---------------------------------------------------------------------- *)
InitAnyImage ==
    /\ InitFeatures
    /\ append_in_place \in BOOLEAN

SpecAnyImage == InitAnyImage /\ [][Next]_vars

(* ---------------------------------------------------------------------- *)
(* Calls that raise: a sampler fails in update(), a get fails in resolve() *)
(* ---------------------------------------------------------------------- *)
\* the samplers a pass runs, given the state st a pass without failure left
UpdateFaults(st) ==
    {[node |-> n, k |-> 1] : n \in {m \in Leaves : LeafIsSampled(m) /\ st.ran[m] > 0}}
    \cup {[node |-> p, k |-> 3] : p \in {q \in Probabilities : st.ran[q] > 0}}
    \cup {[node |-> d, k |-> 1] :
             d \in {e \in Duplicates : CountIsSampled(e) /\ st.ran[e] > 0}}
    \cup {[node |-> d, k |-> 2] : d \in {e \in Duplicates : st.ran[e] > 0}}

\* the gets a resolve of n can run
ResolveFaults(n) ==
    {[node |-> m, k |-> 0] : m \in Reach(n) \cap Leaves}
    \cup UNION {{[node |-> d, k |-> i] : i \in DOMAIN features[d]} :
                  d \in Reach(n) \cap Duplicates}

\* the draws consumed before the sampler f raises
ConsumedBefore(n, f) ==
    LET c == Consumed(FeatUpdate(n, [Cur EXCEPT !.inj = f], ZeroOracle))
    IN  [c EXCEPT !.nd = @ \/ (f.k = 2 /\ f.node \in Duplicates
                                      /\ CountIsSampled(f.node))]

UpdateRaises(n) ==
    LET dry == FeatUpdate(n, Cur, ZeroOracle) IN
    \E f \in UpdateFaults(dry) :
      \E o \in Oracles(ConsumedBefore(n, f)) :
        LET s == FeatUpdate(n, [Cur EXCEPT !.inj = f], o)
        IN  /\ Raised(s)
            /\ Install(s)
            /\ out' = NoImage
            /\ last' = [op |-> "update_raised", node |-> n, arg |-> -1]
            /\ UNCHANGED <<scen, append_in_place>>

ResolveRaises(n, image) ==
    \E f \in ResolveFaults(n) :
        LET r == FeatResolve(n, [val |-> image, trail |-> <<>>],
                             [Cur EXCEPT !.inj = f])
        IN  /\ Raised(r.st)
            /\ Install(r.st)
            /\ out' = NoImage
            /\ last' = [op |-> "resolve_raised", node |-> n, arg |-> image]
            /\ UNCHANGED <<scen, append_in_place>>

\* The caller: after a call has raised, the round is given up; the only
\* call made on the pipeline is an update() of the node the call was made on
\* or of the node that failed.
CallAllowed(n, op) ==
    \/ fault = NoFault
    \/ op = "update" /\ n \in {last.node, fault.node}

NextErr ==
    \E n \in Members(scen) :
        \/ CallAllowed(n, "update") /\ Update(n)
        \/ CallAllowed(n, "sample") /\ Sample(n)
        \/ \E image \in Images : CallAllowed(n, "resolve") /\ Resolve(n, image)
        \/ CallAllowed(n, "update") /\ UpdateRaises(n)
        \/ \E image \in Images :
               CallAllowed(n, "resolve") /\ ResolveRaises(n, image)

SpecErr == Init /\ [][NextErr]_vars

(* ---------------------------------------------------------------------- *)
(* Properties                                                              *)
(* ---------------------------------------------------------------------- *)
Props == <<cur_value, random_number, num_duplicates, features>>

RecLeaf(v) == Rec("Leaf", <<v>>, <<>>)

LeafRecords(trail) == SelectSeq(trail, LAMBDA r : r.keys = "Leaf")

RECURSIVE SumVals(_)
SumVals(fs) == IF fs = <<>> THEN 0 ELSE fs[1].val + SumVals(Tail(fs))

\* C1: an update() call resamples no node more than once, also a node
\* reached through several combinators, and an update() on a node whose flag
\* is already set changes no property value of any node.
C1_UpdateGate ==
    [][last'.op = "update" =>
          /\ \A n \in Nodes : ran'[n] <= 1
          /\ has_updated[last'.node] =>
                 (UNCHANGED Props /\ \A n \in Nodes : ran'[n] = 0)]_vars

\* T is a child of Q and of Ph, itself a child of Q: one update of Q
C1_Witness ==
    /\ last.op = "update" /\ last.node = "Q"
    /\ ran["Q"] = 1 /\ ran["Ph"] = 1 /\ ran["T"] = 1

\* C2: a second update() directly after an update() of the same node leaves
\* the node's property snapshot as the first call left it.
C2_UpdateTwice ==
    [][(last.op = "update" /\ last'.op = "update" /\ last'.node = last.node) =>
          /\ Snapshot(last.node, Cur)' = Snapshot(last.node, Cur)
          /\ ran'[last.node] = 0]_vars

\* an update of the sampled leaf that found the flag set
C2_Witness ==
    /\ last.op = "update" /\ last.node = "T"
    /\ ran["T"] = 0 /\ has_updated["T"]

\* C3: in a round every node reachable from the root is resampled exactly
\* once by the root's update().
C3_EveryNodeResampledEachRound ==
    last.op = "update" => \A n \in Reach(last.node) : ran[n] = 1

\* the sub-nodes C4 names: property values and a Duplicate's template
SubNodesWithTemplate(n) ==
    Range(Children(n)) \cup (IF n \in Duplicates THEN {Template(n)} ELSE {})

\* C4 as stated: update() of a Dirty node resamples it and leaves the node,
\* its children and a Duplicate's template Clean.
C4_Original ==
    [][(last'.op = "update" /\ ~has_updated[last'.node]) =>
          /\ ran'[last'.node] = 1
          /\ has_updated'[last'.node]
          /\ \A c \in SubNodesWithTemplate(last'.node) : has_updated'[c]]_vars

\* C4 amended: update() of a Dirty node resamples its own properties once,
\* calls update() on every node that is the value of one of its properties
\* (a child that was Dirty is resampled), and leaves the node, those children
\* and every replica of a Duplicate's new list Clean.
C4_UpdatePropagates ==
    [][(last'.op = "update" /\ ~has_updated[last'.node]) =>
          /\ ran'[last'.node] = 1
          /\ has_updated'[last'.node]
          /\ \A c \in Range(Children(last'.node)) :
                 /\ has_updated'[c]
                 /\ ~has_updated[c] => ran'[c] = 1
          /\ last'.node \in Duplicates =>
                 \A i \in DOMAIN features'[last'.node] :
                     features'[last'.node][i].upd]_vars

C4_Witness ==
    /\ last.op = "update" /\ last.node = "S"
    /\ ran["S"] = 1 /\ ran["T"] = 1 /\ ran["D"] = 1
    /\ has_updated["S"] /\ has_updated["T"] /\ has_updated["D"]
    /\ Len(features["D"]) = MaxCount

\* C5: after a resample of a Duplicate its replica list is as long as the
\* count produced in that same pass.
C5_ReplicasMatchCount ==
    \A d \in Duplicates :
        ran[d] > 0 => Len(features[d]) = num_duplicates[d]

C5_Witness ==
    /\ ran["D"] = 1
    /\ num_duplicates["D"] = MaxCount
    /\ Len(features["D"]) = MaxCount

\* C6: every replica stored by a Duplicate resample has been resampled by
\* its own update() after it was copied.
C6_ReplicasResampledAfterCopy ==
    \A d \in Duplicates :
        ran[d] > 0 => \A i \in DOMAIN features[d] : features[d][i].own

\* C7 as stated: A + B on the artifact 0 returns 3 with the trail
\* [A props, B props].
C7_Original ==
    (last.op = "resolve" /\ last.node = "AB" /\ last.arg = 0) =>
        /\ out.val = 3
        /\ out.trail = <<RecLeaf(1), RecLeaf(2)>>

\* C7 amended: A + B resolves A first and feeds its output to B; on 0 it
\* returns 3 and the trail is [A props, B props, the props of A + B].
C7_SequenceOrder ==
    (last.op = "resolve" /\ last.node = "AB") =>
        /\ out.val = last.arg + 3
        /\ out.trail = <<RecLeaf(1), RecLeaf(2),
                         Rec("Branch", <<>>, <<"A", "B">>)>>

C7_Witness ==
    /\ last.op = "resolve" /\ last.node = "AB" /\ last.arg = 0
    /\ out.val = 3 /\ Len(out.trail) = 3

\* C8 as stated: [A + B] + T and A + [B + T] give the same artifact and the
\* same trail.
C8_Original ==
    (last.op = "resolve" /\ last.node = "L") =>
        out = FeatResolve("R", [val |-> last.arg, trail |-> <<>>], Cur).img

\* C8 amended: both groupings return the input plus the three leaf values
\* and list the records of A, B and T in that order; the records of the
\* Branch nodes themselves are not compared.
C8_AssocEffect ==
    (last.op = "resolve" /\ last.node \in {"L", "R"}) =>
        /\ out.val = last.arg + cur_value["A"] + cur_value["B"] + cur_value["T"]
        /\ LeafRecords(out.trail) =
               <<RecLeaf(cur_value["A"]), RecLeaf(cur_value["B"]),
                 RecLeaf(cur_value["T"])>>

C8_Witness ==
    /\ last.op = "resolve" /\ last.node = "R" /\ last.arg = 5
    /\ cur_value["T"] = MaxVal
    /\ out.val = 8 + MaxVal

\* C9: with probability 0 the wrapped node is never resolved, with
\* probability 1 it is always resolved, whatever the draw in [0,1).
C9_ThresholdBoundary ==
    \A p \in Probabilities :
        (last.op = "resolve" /\ last.node = p) =>
            /\ Probability(p) = 0 =>
                   /\ out.val = last.arg
                   /\ out.trail = <<Snapshot(p, Cur)>>
            /\ Probability(p) = PScale =>
                   /\ out.val = last.arg + cur_value[Wrapped(p)]
                   /\ out.trail = <<RecLeaf(cur_value[Wrapped(p)]),
                                    Snapshot(p, Cur)>>

\* probability 0 with the smallest draw
C9_Witness ==
    /\ last.op = "resolve" /\ last.node = "P0" /\ last.arg = 5
    /\ random_number["P0"] = 0
    /\ out.val = 5

\* C10: resolving a Duplicate resolves each replica of the list once, in
\* list order, each on the output of the one before; an empty list returns
\* the input value.
C10_DuplicateFold ==
    \A d \in Duplicates :
        /\ num_duplicates[d] = 0 => features[d] = <<>>
        /\ (last.op = "resolve" /\ last.node = d) =>
              /\ out.val = last.arg + SumVals(features[d])
              /\ out.trail =
                     [i \in 1..Len(features[d]) |-> RecLeaf(features[d][i].val)]
                         \o <<Snapshot(d, Cur)>>
              /\ \A i \in DOMAIN features[d] : ~features[d][i].upd
              /\ features[d] = <<>> => out.val = last.arg

C10_Witness ==
    /\ last.op = "resolve" /\ last.node = "D"
    /\ Len(features["D"]) = MaxCount
    /\ features["D"][1].val # features["D"][2].val

\* C11: no Branch whose feature_2 is a Load is ever built and resolved.
C11_LoadRejectsUpstream ==
    \A n \in Members(scen) \cap Branches :
        IsLoad(Feature2(n)) => ~(last.op = "resolve" /\ last.node = n)

\* C12: resolve() needs no preceding update(): it uses the current values
\* and changes no property value of any node, so a following resolve() sees
\* the same snapshot on every node.
C12_ResolveKeepsValues ==
    [][last'.op = "resolve" =>
          /\ cur_value' = cur_value
          /\ random_number' = random_number
          /\ num_duplicates' = num_duplicates
          /\ \A d \in Duplicates : RepVals(features'[d]) = RepVals(features[d])
          /\ \A n \in Nodes : Snapshot(n, Cur)' = Snapshot(n, Cur)
          /\ Kind(last'.node) = "Leaf" =>
                 out'.val = last'.arg + cur_value[last'.node]]_vars

\* a resolve of [A + B] + T while no node of the pipeline is Clean
C12_Witness ==
    /\ last.op = "resolve" /\ last.node = "L"
    /\ out.val = last.arg + 3 + cur_value["T"]
    /\ \A n \in Members(scen) : ~has_updated[n]

\* C13: when the sampler of the k-th property raises during update(), the
\* call raises, the properties from k on keep their values, what was
\* resampled before stays resampled, the node and the node the call was made
\* on are still Dirty, and a following update() of the node resamples it.
C13_SamplerFailure ==
    [][/\ last'.op = "update_raised" =>
           /\ ~has_updated[fault'.node] /\ ~has_updated'[fault'.node]
           /\ ~has_updated'[last'.node]
           /\ ran'[fault'.node] = 0
           /\ Kind(fault'.node) = "Leaf" =>
                  cur_value'[fault'.node] = cur_value[fault'.node]
           /\ Kind(fault'.node) = "Probability" =>
                  /\ random_number'[fault'.node] = random_number[fault'.node]
                  /\ has_updated'[Wrapped(fault'.node)]
           /\ Kind(fault'.node) = "Duplicate" =>
                  /\ features'[fault'.node] = features[fault'.node]
                  /\ fault'.k = 1 =>
                         num_duplicates'[fault'.node] = num_duplicates[fault'.node]
       /\ (last.op = "update_raised" /\ last'.op = "update"
              /\ last'.node = fault.node) =>
           /\ ran'[fault.node] = 1
           /\ has_updated'[fault.node]]_vars

\* the features sampler of D raised after the count was resampled
C13_Witness ==
    /\ last.op = "update_raised"
    /\ fault = [node |-> "D", k |-> 2]
    /\ num_duplicates["D"] = MaxCount /\ features["D"] = <<>>
    /\ ~has_updated["D"]

\* C14: when a get raises during resolve(), the call raises, no artifact is
\* returned, and the flag and the property values of the failing node and of
\* the node the call was made on are as before; a Clean node stays Clean and
\* its next update() is a no-op.
C14_ApplyFailure ==
    [][/\ last'.op = "resolve_raised" =>
           /\ out' = NoImage
           /\ has_updated'[fault'.node] = has_updated[fault'.node]
           /\ has_updated'[last'.node] = has_updated[last'.node]
           /\ cur_value' = cur_value
           /\ random_number' = random_number
           /\ num_duplicates' = num_duplicates
           /\ \A d \in Duplicates : RepVals(features'[d]) = RepVals(features[d])
           /\ fault'.k > 0 =>
                  features'[fault'.node][fault'.k].upd
                      = features[fault'.node][fault'.k].upd
       /\ (last.op = "resolve_raised" /\ last'.op = "update"
              /\ last'.node = fault.node /\ has_updated[fault.node]) =>
           /\ ran'[fault.node] = 0
           /\ UNCHANGED Props]_vars

\* B raised in a resolve of A + B: A has been resolved, B and A + B are
\* still Clean
C14_Witness ==
    /\ last.op = "resolve_raised" /\ last.node = "AB"
    /\ fault = [node |-> "B", k |-> 0]
    /\ has_updated["B"] /\ has_updated["AB"] /\ ~has_updated["A"]

\* C15: every node starts Dirty; a completed update() leaves its node Clean
\* and a completed resolve() leaves its node Dirty, whatever the flag was;
\* a flag turns Clean only by an update() reaching the node and turns Dirty
\* only by a resolve() reaching it. The same holds for the replicas.
C15_FlagMachine ==
    /\ \A n \in Nodes : ~has_updated[n]
    /\ [][/\ last'.op = "update" => has_updated'[last'.node]
          /\ last'.op = "resolve" => ~has_updated'[last'.node]
          /\ \A n \in Nodes :
                /\ (~has_updated[n] /\ has_updated'[n]) =>
                       \/ last'.op = "update" /\ n \in Reach(last'.node)
                       \/ last'.op = "sample"
                            /\ n \in Reach(last'.node) \ {last'.node}
                /\ (has_updated[n] /\ ~has_updated'[n]) =>
                       last'.op = "resolve" /\ n \in Reach(last'.node)
          /\ \A d \in Duplicates :
                /\ (last'.op \in {"update", "sample"} /\ ran'[d] > 0) =>
                       \A i \in DOMAIN features'[d] : features'[d][i].upd
                /\ (last'.op = "resolve" /\ d \in Reach(last'.node)) =>
                       \A i \in DOMAIN features'[d] : ~features'[d][i].upd]_vars

\* T was made Clean by update() of T * 0.5 and Dirty again by its own resolve()
C15_Witness ==
    /\ last.op = "resolve" /\ last.node = "T"
    /\ ~has_updated["T"] /\ has_updated["Ph"] /\ ~has_updated["Q"]

\* C16: the image a resolve() returns has the snapshot of the resolving node
\* as the last record of its trail, whether append changes the image in
\* place or returns a new one.
C16_OwnRecordLast ==
    last.op = "resolve" =>
        /\ out.trail # <<>>
        /\ out.trail[Len(out.trail)] = Snapshot(last.node, Cur)

\* C17: a resolve of a Probability node resolves the wrapped feature exactly
\* when the draw of the snapshot is strictly below the probability of the
\* snapshot; otherwise the value is the input value, the wrapped feature is
\* not resolved and the only record is the snapshot of the node itself.
C17_ProbabilityResolve ==
    [][(last'.op = "resolve" /\ last'.node \in Probabilities) =>
          LET p == last'.node
              w == Wrapped(p)
          IN  IF random_number[p] < Probability(p)
              THEN /\ out'.val = last'.arg + cur_value[w]
                   /\ out'.trail = <<RecLeaf(cur_value[w]), Snapshot(p, Cur)>>
                   /\ ~has_updated'[w]
              ELSE /\ out'.val = last'.arg
                   /\ out'.trail = <<Snapshot(p, Cur)>>
                   /\ has_updated'[w] = has_updated[w]]_vars

\* T * 0.5 was resolved with a draw not below the probability: T is skipped
\* and still Clean
C17_Witness ==
    /\ last.op = "resolve" /\ last.node = "Ph"
    /\ random_number["Ph"] >= Probability("Ph")
    /\ out.val = last.arg /\ Len(out.trail) = 1
    /\ has_updated["T"]

\* C18: sample() runs the samplers of its node whatever the flag is and
\* leaves the flag of its node as it was.
C18_SampleIgnoresFlag ==
    [][last'.op = "sample" =>
          /\ ran'[last'.node] = 1
          /\ has_updated'[last'.node] = has_updated[last'.node]]_vars

\* T was resampled by sample() while Clean
C18_Witness ==
    /\ last.op = "sample" /\ last.node = "T"
    /\ has_updated["T"] /\ ran["T"] = 1

\* C19: an update() or a resolve() of a Duplicate node changes neither the
\* property values nor the flag of its template.
C19_TemplateUntouched ==
    [][(last'.op \in {"update", "resolve"} /\ last'.node \in Duplicates) =>
          /\ cur_value'[Template(last'.node)] = cur_value[Template(last'.node)]
          /\ has_updated'[Template(last'.node)]
                 = has_updated[Template(last'.node)]]_vars

\* T ** n was resolved with all its copies while T was Clean
C19_Witness ==
    /\ last.op = "resolve" /\ last.node = "D"
    /\ has_updated["T"] /\ features["D"] # <<>>
    /\ \A i \in DOMAIN features["D"] : ~features["D"][i].upd

====
